---------------------------- MODULE Spec2Model ----------------------------
(***************************************************************************)
(* A model of the jwt_signer Caddy handler (src/signer.go).                *)
(*                                                                         *)
(* Go strings are TLA+ strings.  Go maps live on a heap: every map is a    *)
(* cell of the sequence `heap', and a map value held by another map or by  *)
(* a variable is the address (index) of its cell, so that two references   *)
(* to one map are visibly the same map.  Address 0 is the nil map.         *)
(***************************************************************************)
EXTENDS Integers, Sequences, FiniteSets, TLC

VARIABLES
    heap,       \* Seq of Go maps: key -> node (see the node kinds below)
    sDur,       \* JwtSigner.Dur
    sSecret,    \* JwtSigner.Secret
    sL,         \* JwtSigner.l: whether Provision has set the logger
    sClaims,    \* JwtSigner.Claims: address of the template map, 0 = nil
    claims0,    \* contents of s.Claims right after construction (deep value)
    repl,       \* per request: the caddy.Replacer of the request context
    req,        \* per request: the locals of its ServeHTTP execution
    writes,     \* every map write so far: [addr |-> cell, by |-> request]
    cfg         \* the Caddyfile of the directive and how far its loading is

vars == <<heap, sDur, sSecret, sL, sClaims, claims0, repl, req, writes, cfg>>

-----------------------------------------------------------------------------
(* Bounds of the model.                                                    *)

NumReq == 2         \* concurrent ServeHTTP executions
MaxDepth == 2       \* nesting depth of generated templates and claim blocks
MaxEntries == 2     \* entries per generated Caddyfile block

-----------------------------------------------------------------------------
(* Strings.  A Go string is a sequence of bytes; the model's strings are   *)
(* TLC's, one character for a byte of ASCII.                               *)

At(s, i) == SubSeq(s, i, i)

\* strings.Index(s[i:], c) + i, 1-based; 0 when c does not occur from i on.
IndexFrom(s, c, i) ==
    LET at == {j \in i..Len(s) : At(s, j) = c}
    IN  IF at = {} THEN 0 ELSE CHOOSE j \in at : \A k \in at : j <= k

\* The characters of the model's strings, in the order of their codes:
\* 1-8, 11 and 14-31 written as they are, 9, 10, 12 and 13 as TLA+ escapes
\* them, the printable characters of ASCII from 32 (the space) to 95 and
\* from 97 to 126, 127, the characters 128-255 and the Greek letter mu
\* (956).  A TLA+ string cannot hold the character 96, the grave accent.
Ctl1 == ""

Ctl11 == ""

Ctl14 == ""

Upper == " !\"#$%&'()*+,-./0123456789:;<=>?@ABCDEFGHIJKLMNOPQRSTUVWXYZ[\\]^_"

Lower == "abcdefghijklmnopqrstuvwxyz{|}~"

High == " ¡¢£¤¥¦§¨©ª«¬­®¯°±²³´µ¶·¸¹º»¼½¾¿ÀÁÂÃÄÅÆÇÈÉÊËÌÍÎÏÐÑÒÓÔÕÖ×ØÙÚÛÜÝÞßàáâãäåæçèéêëìíîïðñòóôõö÷øùúûüýþÿ"

\* the characters of a run, each with its code: the first has code `first'
CodesOf(run, first) ==
    [c \in {At(run, i) : i \in 1..Len(run)} |-> first - 1 + IndexFrom(run, c, 1)]

CodeOf ==
    CodesOf(Ctl1, 1) @@ ("\t" :> 9) @@ ("\n" :> 10) @@ CodesOf(Ctl11, 11)
    @@ ("\f" :> 12) @@ ("\r" :> 13) @@ CodesOf(Ctl14, 14) @@ CodesOf(Upper, 32)
    @@ CodesOf(Lower, 97) @@ CodesOf(High, 128) @@ ("μ" :> 956)

\* the code of a character.  The bytes of two strings of UTF-8 compare as
\* the codes of their characters do.
CharCode(c) == CodeOf[c]

\* strings.Compare(a, b) <= 0: the order of the bytes, the first that
\* differs deciding, and a prefix coming first
StrLeq(a, b) ==
    LET n    == IF Len(a) < Len(b) THEN Len(a) ELSE Len(b)
        diff == {i \in 1..n : At(a, i) # At(b, i)}
        d    == CHOOSE i \in diff : \A j \in diff : i <= j
    IN  IF a = "" THEN TRUE
        ELSE IF b = "" THEN FALSE
        ELSE IF At(a, 1) # At(b, 1) THEN CharCode(At(a, 1)) < CharCode(At(b, 1))
        ELSE IF diff = {} THEN Len(a) <= Len(b)
        ELSE CharCode(At(a, d)) < CharCode(At(b, d))

-----------------------------------------------------------------------------
(* caddy.Replacer: a mapping from placeholder names to values.             *)

DigestKey == "http.jwt_signer.digest_str"

\* Replacer.Get followed by ToString: an unknown placeholder has no value.
ReplGet(r, key) == IF key \in DOMAIN r THEN r[key] ELSE ""

\* Replacer.Set
ReplSet(r, key, val) == (key :> val) @@ r

\* the unclosed placeholders Replacer.replace puts up with
MaxUnclosed == 100

\* "look for the first closing brace that is not escaped": from the closing
\* brace at end on; 0 when the search runs out of closing braces.  A
\* closing brace that ends the input is taken even when escaped.
UnescapedEnd(input, end) ==
    LET Escaped(e) == e > 1 /\ e < Len(input) /\ At(input, e - 1) = "\\"
        ends == {e \in end..Len(input) : At(input, e) = "}" /\ ~Escaped(e)}
    IN  IF ends = {} THEN 0
        ELSE CHOOSE e \in ends : \A f \in ends : e <= f

\* Replacer.replace(input, "", true, false, false, nil): the state of the
\* loop `scan' is [ok, i, lastWriteCursor, unclosedCount, sb], with i the
\* next character the loop looks at (1-based), lastWriteCursor the first
\* character not yet written and sb the output so far; ok is FALSE once
\* replace has returned its error.
ScanStart == [ok |-> TRUE, i |-> 1, lastWriteCursor |-> 1, unclosedCount |-> 0, sb |-> ""]

\* one turn of the loop, on the character at i
ReplaceStep(r, input, st, i) ==
    IF ~st.ok \/ i < st.i THEN st
    ELSE IF i > 1 /\ At(input, i - 1) = "\\" /\ At(input, i) \in {"}", "{"}
    THEN \* an escaped brace: written without the backslash
         [st EXCEPT !.i = i + 1, !.lastWriteCursor = i,
                    !.sb = @ \o SubSeq(input, st.lastWriteCursor, i - 2)]
    ELSE IF At(input, i) # "{"
    THEN [st EXCEPT !.i = i + 1]
    ELSE IF st.unclosedCount > MaxUnclosed
    THEN [st EXCEPT !.ok = FALSE]
    ELSE LET first == IndexFrom(input, "}", i)
             end   == IF first = 0 THEN 0 ELSE UnescapedEnd(input, first)
         IN  IF end = 0
             THEN [st EXCEPT !.i = i + 1, !.unclosedCount = @ + 1]
             ELSE [st EXCEPT !.i = end + 1, !.lastWriteCursor = end + 1,
                             !.sb = @ \o SubSeq(input, st.lastWriteCursor, i - 1)
                                      \o ReplGet(r, SubSeq(input, i + 1, end - 1))]

\* the turns of the loop on the characters lo..hi, in their order: those
\* on lo..mid, and from the state they leave those on mid+1..hi
RECURSIVE ReplaceFrom(_, _, _, _, _)
ReplaceFrom(r, input, st, lo, hi) ==
    IF lo > hi THEN st
    ELSE IF lo = hi THEN ReplaceStep(r, input, st, lo)
    ELSE LET mid == (lo + hi) \div 2
         IN  CHOOSE out \in {ReplaceFrom(r, input, left, mid + 1, hi) :
                                left \in {ReplaceFrom(r, input, st, lo, mid)}} : TRUE

\* Replacer.ReplaceAll(input, ""): the error of replace is dropped, and
\* with it the output
ReplaceAll(r, input) ==
    LET st == ReplaceFrom(r, input, ScanStart, 1, Len(input))
    IN  IF ~st.ok THEN ""
        ELSE st.sb \o SubSeq(input, st.lastWriteCursor, Len(input))
-----------------------------------------------------------------------------
(* Go's 64-bit integers.  TLC's integers have 32 bits, so a natural number *)
(* is kept as the sequence of its digits in base 2^15, least significant   *)
(* first and without leading zeros (0 is the empty sequence), and an int64 *)
(* as [neg, mag].                                                          *)

Base == 32768

LimbBits == 15

RECURSIVE Trim(_)
Trim(a) == IF a # <<>> /\ a[Len(a)] = 0 THEN Trim(SubSeq(a, 1, Len(a) - 1)) ELSE a

\* the natural number n of TLC
RECURSIVE FromInt(_)
FromInt(n) == IF n = 0 THEN <<>> ELSE <<n % Base>> \o FromInt(n \div Base)

RECURSIVE Zeros(_)
Zeros(n) == IF n = 0 THEN <<>> ELSE <<0>> \o Zeros(n - 1)

RECURSIVE CmpFrom(_, _, _)
CmpFrom(a, b, i) ==
    IF i = 0 THEN 0
    ELSE IF a[i] < b[i] THEN -1
    ELSE IF a[i] > b[i] THEN 1
    ELSE CmpFrom(a, b, i - 1)

\* -1, 0 or 1 as a < b, a = b or a > b
Cmp(a, b) ==
    IF Len(a) < Len(b) THEN -1
    ELSE IF Len(a) > Len(b) THEN 1
    ELSE CmpFrom(a, b, Len(a))

RECURSIVE AddC(_, _, _)
AddC(a, b, c) ==
    IF a = <<>> /\ b = <<>> THEN (IF c = 0 THEN <<>> ELSE <<c>>)
    ELSE LET x == (IF a = <<>> THEN 0 ELSE a[1]) + (IF b = <<>> THEN 0 ELSE b[1]) + c
         IN  <<x % Base>> \o AddC(IF a = <<>> THEN a ELSE Tail(a),
                                  IF b = <<>> THEN b ELSE Tail(b), x \div Base)

Add(a, b) == AddC(a, b, 0)

RECURSIVE SubB(_, _, _)
SubB(a, b, borrow) ==
    IF a = <<>> THEN <<>>
    ELSE LET x == a[1] - (IF b = <<>> THEN 0 ELSE b[1]) - borrow
         IN  <<x % Base>> \o SubB(Tail(a), IF b = <<>> THEN b ELSE Tail(b),
                                  IF x < 0 THEN 1 ELSE 0)

\* a - b for a >= b
Sub(a, b) == Trim(SubB(a, b, 0))

RECURSIVE MulC(_, _, _)
MulC(a, m, c) ==
    IF a = <<>> THEN (IF c = 0 THEN <<>> ELSE <<c>>)
    ELSE LET x == a[1] * m + c
         IN  <<x % Base>> \o MulC(Tail(a), m, x \div Base)

\* a * m for m < Base
MulSmall(a, m) == Trim(MulC(a, m, 0))

\* the limbs i..j of a, below the remainder r of the limbs above, divided
\* by m: [q, r], the upper half of the limbs before the lower
RECURSIVE DivRange(_, _, _, _, _)
DivRange(a, m, i, j, r) ==
    IF i = j THEN [q |-> <<(r * Base + a[i]) \div m>>, r |-> (r * Base + a[i]) % m]
    ELSE CHOOSE d \in
             {CHOOSE e \in {[q |-> lo.q \o hi.q, r |-> lo.r] :
                                lo \in {DivRange(a, m, i, (i + j) \div 2, hi.r)}} : TRUE :
                  hi \in {DivRange(a, m, (i + j) \div 2 + 1, j, r)}} : TRUE

\* a / m and a % m for 0 < m <= Base: [q, r]
DivC(a, m) == IF a = <<>> THEN [q |-> <<>>, r |-> 0] ELSE DivRange(a, m, 1, Len(a), 0)

DivSmall(a, m) == LET d == DivC(a, m) IN [q |-> Trim(d.q), r |-> d.r]

\* a times the limbs i..j of b, the two halves of the limbs multiplied apart
RECURSIVE MulRange(_, _, _, _)
MulRange(a, b, i, j) ==
    IF i = j THEN MulSmall(a, b[i])
    ELSE CHOOSE p \in
             {Add(lo, IF hi = <<>> THEN hi ELSE Zeros((i + j) \div 2 + 1 - i) \o hi) :
                  lo \in {MulRange(a, b, i, (i + j) \div 2)},
                  hi \in {MulRange(a, b, (i + j) \div 2 + 1, j)}} : TRUE

Mul(a, b) == IF a = <<>> \/ b = <<>> THEN <<>> ELSE MulRange(a, b, 1, Len(b))

\* a times, and a divided by, the product of the small numbers fs
RECURSIVE MulBy(_, _)
MulBy(a, fs) == IF fs = <<>> THEN a ELSE MulBy(MulSmall(a, Head(fs)), Tail(fs))

RECURSIVE DivBy(_, _)
DivBy(a, fs) == IF fs = <<>> THEN a ELSE DivBy(DivSmall(a, Head(fs)).q, Tail(fs))

RECURSIVE Pow2(_)
Pow2(k) == IF k = 0 THEN 1 ELSE 2 * Pow2(k - 1)

RECURSIVE LimbLen(_)
LimbLen(x) == IF x = 0 THEN 0 ELSE 1 + LimbLen(x \div 2)

\* the number of bits of a
BitLen(a) == IF a = <<>> THEN 0 ELSE LimbBits * (Len(a) - 1) + LimbLen(a[Len(a)])

\* a << n and a >> n
Shl(a, n) ==
    IF a = <<>> THEN a ELSE Zeros(n \div LimbBits) \o MulSmall(a, Pow2(n % LimbBits))

Shr(a, n) ==
    IF n \div LimbBits >= Len(a) THEN <<>>
    ELSE DivSmall(SubSeq(a, n \div LimbBits + 1, Len(a)), Pow2(n % LimbBits)).q

\* the largest digit g with g * b <= rem, for rem < b * Base, between lo
\* and hi
RECURSIVE QuoDigit(_, _, _, _)
QuoDigit(rem, b, lo, hi) ==
    IF lo = hi THEN lo
    ELSE LET mid == (lo + hi + 1) \div 2
         IN  IF Cmp(MulSmall(b, mid), rem) <= 0 THEN QuoDigit(rem, b, mid, hi)
             ELSE QuoDigit(rem, b, lo, mid - 1)

\* the long division by b of the limbs i..j of a, below the remainder r of
\* the limbs above: one limb gives one digit g of the quotient, more limbs
\* are divided the upper half before the lower
RECURSIVE DivLimbs(_, _, _, _, _)
DivLimbs(a, b, i, j, r) ==
    IF i = j
    THEN CHOOSE d \in {[q |-> <<g>>, r |-> Sub(Trim(<<a[i]>> \o r), MulSmall(b, g))] :
                          g \in {QuoDigit(Trim(<<a[i]>> \o r), b, 0, Base - 1)}} : TRUE
    ELSE CHOOSE d \in
             {CHOOSE e \in {[q |-> lo.q \o hi.q, r |-> lo.r] :
                                lo \in {DivLimbs(a, b, i, (i + j) \div 2, hi.r)}} : TRUE :
                  hi \in {DivLimbs(a, b, (i + j) \div 2 + 1, j, r)}} : TRUE

\* a / b and a % b for b > 0: [q, r]
DivBig(a, b) ==
    IF a = <<>> THEN [q |-> <<>>, r |-> <<>>]
    ELSE CHOOSE d \in {[q |-> Trim(l.q), r |-> l.r] : l \in {DivLimbs(a, b, 1, Len(a), <<>>)}} : TRUE

\* 10^p
RECURSIVE Pow10(_)
Pow10(p) ==
    IF p = 0 THEN <<1>>
    ELSE CHOOSE out \in {IF p % 2 = 0 THEN Mul(h, h) ELSE MulSmall(Mul(h, h), 10) :
                             h \in {Pow10(p \div 2)}} : TRUE

\* the decimal digits of a, as strconv writes them
DigitChar(n) == SubSeq("0123456789", n + 1, n + 1)

\* k zeros
RECURSIVE ZeroDigits(_)
ZeroDigits(k) ==
    IF k = 0 THEN ""
    ELSE CHOOSE z \in {h \o h \o (IF k % 2 = 1 THEN "0" ELSE "") :
                            h \in {ZeroDigits(k \div 2)}} : TRUE

\* the digits of a of at most five limbs one at a time, and those of a longer
\* a as the digits of its upper half and the p digits of its lower, which
\* are the digits lo of the remainder after the zeros before them
RECURSIVE DecimalOf(_)
DecimalOf(a) ==
    IF a = <<>> THEN ""
    ELSE IF Len(a) <= 5
    THEN CHOOSE s \in {DecimalOf(Trim(d.q)) \o DigitChar(d.r) : d \in {DivC(a, 10)}} : TRUE
    ELSE CHOOSE s \in
             {CHOOSE t \in {CHOOSE u \in {DecimalOf(d.q) \o ZeroDigits(p - Len(lo)) \o lo :
                                               lo \in {DecimalOf(d.r)}} : TRUE :
                                d \in {DivBig(a, Pow10(p))}} : TRUE :
                  p \in {(3 * BitLen(a)) \div 20}} : TRUE

\* int64 values
I64(neg, mag) == [neg |-> neg /\ mag # <<>>, mag |-> mag]

Int64(n) == IF n < 0 THEN I64(TRUE, FromInt(-n)) ELSE I64(FALSE, FromInt(n))

I64Add(a, b) ==
    IF a.neg = b.neg THEN I64(a.neg, Add(a.mag, b.mag))
    ELSE IF Cmp(a.mag, b.mag) >= 0 THEN I64(a.neg, Sub(a.mag, b.mag))
    ELSE I64(b.neg, Sub(b.mag, a.mag))

I64Neg(a) == I64(~a.neg, a.mag)

\* strconv.FormatInt(a, 10)
FormatInt(a) ==
    IF a.mag = <<>> THEN "0"
    ELSE (IF a.neg THEN "-" ELSE "") \o DecimalOf(a.mag)

-----------------------------------------------------------------------------
(* float64, as far as ParseDuration uses it: positive values m * 2^e with  *)
(* m of at most 53 bits, every operation rounded to the nearest such value *)
(* and to the even one of two equally near.                                *)

MantBits == 53

\* the float64 nearest to a * 2^e, or to slightly more when sticky
Round53(a, e, sticky) ==
    IF BitLen(a) <= MantBits THEN [m |-> a, e |-> e]
    ELSE LET drop == BitLen(a) - MantBits
             q    == Shr(a, drop)
             c    == Cmp(Sub(a, Shl(q, drop)), Shl(<<1>>, drop - 1))
             up   == c > 0 \/ (c = 0 /\ (sticky \/ q[1] % 2 = 1))
         IN  [m |-> IF up THEN Add(q, <<1>>) ELSE q, e |-> e + drop]

\* float64(x) for a uint64 x
FloatOf(x) == Round53(x, 0, FALSE)

\* the bits the quotient is computed to before it is rounded
GuardBits == 128

\* x / y
FloatQuo(x, y) ==
    LET d == DivBig(Shl(x.m, GuardBits), y.m)
    IN  Round53(d.q, x.e - y.e - GuardBits, d.r # <<>>)

FloatMul(x, y) == Round53(Mul(x.m, y.m), x.e + y.e, FALSE)

\* uint64(x): the whole part
FloatToUint(x) == IF x.e >= 0 THEN Shl(x.m, x.e) ELSE Shr(x.m, -x.e)

-----------------------------------------------------------------------------
(* strconv.AppendFloat(b, f, fmt, -1, 64) as encoding/json calls it, for a *)
(* float64 of integral value n > 0: the shortest decimal digits that read  *)
(* back as the same float64, and of several such the nearest to n.         *)

\* the whole number c reads back as the float64 n: it is nearer to n than
\* to its neighbours, or midway when the mantissa of n is even.  The
\* neighbours of n of b > 53 bits are 2^(b - 53) away, the lower one half
\* as far when n is a power of two; the midpoints are compared four times
\* their size, and even is 1 when the midpoints read back as n.
ReadsBackAs(c, n) ==
    IF BitLen(n) <= MantBits THEN c = n
    ELSE \E even \in {IF Shr(n, BitLen(n) - MantBits)[1] % 2 = 0 THEN 1 ELSE 0} :
             /\ Cmp(Sub(Shl(n, 2), IF n = Shl(<<1>>, BitLen(n) - 1)
                                   THEN Shl(<<1>>, BitLen(n) - MantBits)
                                   ELSE Shl(<<1>>, BitLen(n) - MantBits + 1)),
                    Shl(c, 2)) < even
             /\ Cmp(Shl(c, 2),
                    Add(Shl(n, 2), Shl(<<1>>, BitLen(n) - MantBits + 1))) < even

\* n rounded down to a multiple of 10^p
Floor10(n, p) == Sub(n, DivBig(n, Pow10(p)).r)

\* the largest p of lo..hi with a multiple of 10^p that reads back as n,
\* which is the one below n or the one above it (there is one for p when
\* there is one for p + 1, and one for lo)
RECURSIVE ShortestPow(_, _, _)
ShortestPow(n, lo, hi) ==
    IF lo = hi THEN lo
    ELSE CHOOSE out \in
             {IF \E f \in {Floor10(n, mid)} :
                     ReadsBackAs(f, n) \/ ReadsBackAs(Add(f, Pow10(mid)), n)
              THEN ShortestPow(n, mid, hi)
              ELSE ShortestPow(n, lo, mid - 1) :
                  mid \in {(lo + hi + 1) \div 2}} : TRUE

\* of the multiples lo and lo + 10^p around n, the one that reads back as
\* n, the nearer when both do, the even one when they are equally near
Nearest(n, p, lo) ==
    IF lo = n THEN n
    ELSE IF ~ReadsBackAs(Add(lo, Pow10(p)), n) THEN lo
    ELSE IF ~ReadsBackAs(lo, n) THEN Add(lo, Pow10(p))
    ELSE IF Cmp(Shl(Sub(n, lo), 1), Pow10(p)) < 0 THEN lo
    ELSE IF Cmp(Shl(Sub(n, lo), 1), Pow10(p)) > 0 THEN Add(lo, Pow10(p))
    ELSE IF DivBig(lo, Pow10(p)).q[1] % 2 = 0 THEN lo
    ELSE Add(lo, Pow10(p))

\* the number the shortest digits of n spell (n has fewer than
\* BitLen(n) / 3 + 1 digits)
Shortest(n) ==
    CHOOSE r \in {Nearest(n, p, Floor10(n, p)) :
                      p \in {ShortestPow(n, 0, BitLen(n) \div 3)}} : TRUE

\* format 'e' of the digits s, d.ddde+XX: the digits up to the last that is
\* not a zero, and the number of digits after the first
ExpFormat(s) ==
    CHOOSE out \in
        {At(s, 1) \o (IF last > 1 THEN "." \o SubSeq(s, 2, last) ELSE "")
                  \o "e+" \o DecimalOf(FromInt(Len(s) - 1)) :
             last \in {i \in 1..Len(s) :
                          At(s, i) # "0" /\ \A j \in (i + 1)..Len(s) : At(s, j) = "0"}} : TRUE

\* a float64 of integral value as encoding/json writes it: format 'e' from
\* 1e21 on, format 'f' below
FormatFloat(a) ==
    IF a.mag = <<>> THEN "0"
    ELSE (IF a.neg THEN "-" ELSE "")
         \o (CHOOSE out \in {IF Cmp(a.mag, Pow10(21)) >= 0 THEN ExpFormat(s) ELSE s :
                                s \in {DecimalOf(r) : r \in {Shortest(a.mag)}}} : TRUE)

-----------------------------------------------------------------------------
(* time.Duration, an int64 count of nanoseconds, and time.ParseDuration    *)
(* (called at signer.go:73).                                               *)

Second == 1000000000    \* nanoseconds in a second

Digits == {"0", "1", "2", "3", "4", "5", "6", "7", "8", "9"}

DigitVal(c) ==
    CASE c = "0" -> 0 [] c = "1" -> 1 [] c = "2" -> 2 [] c = "3" -> 3
      [] c = "4" -> 4 [] c = "5" -> 5 [] c = "6" -> 6 [] c = "7" -> 7
      [] c = "8" -> 8 [] c = "9" -> 9

\* 1<<63 and 1<<64
Two63 == Shl(<<1>>, 63)

Two64 == Shl(<<1>>, 64)

\* the keys of unitMap; the microsecond has three spellings (u, U+00B5 and
\* U+03BC)
UnitNames == {"ns", "us", "µs", "μs", "ms", "s", "m", "h"}

\* unitMap, each unit as the small factors of its nanoseconds
UnitFactors(u) ==
    CASE u = "ns" -> <<>>
      [] u \in {"us", "µs", "μs"} -> <<1000>>
      [] u = "ms" -> <<1000, 1000>>
      [] u = "s"  -> <<1000, 1000, 1000>>
      [] u = "m"  -> <<1000, 1000, 1000, 60>>
      [] u = "h"  -> <<1000, 1000, 1000, 3600>>

UnitOf(u) == MulBy(<<1>>, UnitFactors(u))

\* v > 1<<63/unit
UnitOverflow(v, u) == Cmp(v, DivBy(Two63, UnitFactors(u))) > 0

\* leadingInt: the digits of s from position i on; [ok, v, i] with i the
\* first position after them, not ok when the value passes 1<<63.
RECURSIVE LeadingInt(_, _, _)
LeadingInt(s, i, x) ==
    IF i <= Len(s) /\ At(s, i) \in Digits
    THEN IF Cmp(x, DivSmall(Two63, 10).q) > 0 THEN [ok |-> FALSE, v |-> <<>>, i |-> i]
         ELSE LET y == AddC(MulSmall(x, 10), <<>>, DigitVal(At(s, i)))
              IN  IF Cmp(y, Two63) > 0 THEN [ok |-> FALSE, v |-> <<>>, i |-> i]
                  ELSE LeadingInt(s, i + 1, y)
    ELSE [ok |-> TRUE, v |-> x, i |-> i]

\* the first position from i on that holds no digit
DigitsEnd(s, i) ==
    LET other == {j \in i..Len(s) : At(s, j) \notin Digits}
    IN  IF other = {} THEN Len(s) + 1 ELSE CHOOSE j \in other : \A k \in other : j <= k

\* leadingFraction, one turn of its loop on the digit at i: x the value of
\* the digits so far, scale the float64 that `scale *= 10' has made of
\* them; after an overflow the digits are read and dropped
FractionStep(s, st, i) ==
    IF st.overflow THEN st
    ELSE IF Cmp(st.x, DivSmall(Sub(Two63, <<1>>), 10).q) > 0
    THEN [st EXCEPT !.overflow = TRUE]
    ELSE LET y == AddC(MulSmall(st.x, 10), <<>>, DigitVal(At(s, i)))
         IN  IF Cmp(y, Two63) > 0 THEN [st EXCEPT !.overflow = TRUE]
             ELSE [st EXCEPT !.x = y, !.scale = FloatMul(@, FloatOf(<<10>>))]

\* the turns on the digits lo..hi, in their order
RECURSIVE FractionFrom(_, _, _, _)
FractionFrom(s, st, lo, hi) ==
    IF lo > hi THEN st
    ELSE IF lo = hi THEN FractionStep(s, st, lo)
    ELSE LET mid == (lo + hi) \div 2
         IN  CHOOSE out \in {FractionFrom(s, left, mid + 1, hi) :
                                left \in {FractionFrom(s, st, lo, mid)}} : TRUE

\* leadingFraction on s[i:]: [f, scale, i] with i the first position after
\* the digits.  The exponent of scale is not bounded as that of a float64
\* is: past the range of float64 (more than 308 digits) the fraction
\* counts for no nanosecond either way.
LeadingFraction(s, i) ==
    LET end == DigitsEnd(s, i)
        st  == FractionFrom(s, [x |-> <<>>, scale |-> FloatOf(<<1>>), overflow |-> FALSE],
                            i, end - 1)
    IN  [f |-> st.x, scale |-> st.scale, i |-> end]

\* the end of the unit: the first position from i on holding '.' or a digit
UnitEnd(s, i) ==
    LET ends == {j \in i..Len(s) : At(s, j) = "." \/ At(s, j) \in Digits}
    IN  IF ends = {} THEN Len(s) + 1 ELSE CHOOSE j \in ends : \A k \in ends : j <= k

\* uint64(float64(f) * (float64(unit) / scale))
DurFrac(f, scale, unit) ==
    FloatToUint(FloatMul(FloatOf(f), FloatQuo(FloatOf(unit), scale)))

\* d += v in uint64
DurAdd(d, v) ==
    IF Cmp(Add(d, v), Two64) >= 0 THEN Sub(Add(d, v), Two64) ELSE Add(d, v)

DurErr == [ok |-> FALSE, d |-> <<>>]

\* the loop "for s != \"\"" of ParseDuration, s[i:] left to read, d so far
RECURSIVE ParseTerms(_, _, _)

\* d += v, and the terms from ue on; an error when v or the sum passes 1<<63
AddTerm(s, ue, d, v) ==
    IF Cmp(v, Two63) > 0 THEN DurErr
    ELSE IF Cmp(DurAdd(d, v), Two63) > 0 THEN DurErr
    ELSE ParseTerms(s, ue, DurAdd(d, v))

\* the term's unit s[lf.i .. ue-1] and its value v*unit + f*(unit/scale)
ParseUnit(s, d, li, lf, ue) ==
    LET u == SubSeq(s, lf.i, ue - 1)
        w == MulBy(li.v, UnitFactors(u))
    IN  IF ue = lf.i THEN DurErr                 \* missing unit
        ELSE IF u \notin UnitNames THEN DurErr   \* unknown unit
        ELSE IF UnitOverflow(li.v, u) THEN DurErr
        ELSE AddTerm(s, ue, d,
                     IF lf.f # <<>> THEN Add(w, DurFrac(lf.f, lf.scale, UnitOf(u)))
                                    ELSE w)

\* the digits before and after the point: li from LeadingInt, lf from
\* LeadingFraction when a point follows
ParseDigits(s, i, d, li, dot, lf) ==
    LET pre  == li.i # i
        post == dot /\ lf.i # li.i + 1
    IN  IF ~li.ok THEN DurErr
        ELSE IF ~pre /\ ~post THEN DurErr        \* no digits
        ELSE ParseUnit(s, d, li, lf, UnitEnd(s, lf.i))

\* the optional fraction after the integer li
ParseFraction(s, i, d, li, dot) ==
    ParseDigits(s, i, d, li, dot,
                IF dot THEN LeadingFraction(s, li.i + 1)
                       ELSE [f |-> <<>>, scale |-> FloatOf(<<1>>), i |-> li.i])

\* one term of the duration after another
ParseInt(s, i, d, li) ==
    ParseFraction(s, i, d, li, li.i <= Len(s) /\ At(s, li.i) = ".")

ParseTerms(s, i, d) ==
    IF i > Len(s) THEN [ok |-> TRUE, d |-> d]
    ELSE IF ~(At(s, i) = "." \/ At(s, i) \in Digits) THEN DurErr
    ELSE ParseInt(s, i, d, LeadingInt(s, i, <<>>))

\* the sign applied to the sum r of the terms
SignedDuration(neg, r) ==
    IF ~r.ok THEN [ok |-> FALSE, d |-> Int64(0)]
    ELSE IF neg THEN [ok |-> TRUE, d |-> I64(TRUE, r.d)]
    ELSE IF Cmp(r.d, Sub(Two63, <<1>>)) > 0 THEN [ok |-> FALSE, d |-> Int64(0)]
    ELSE [ok |-> TRUE, d |-> I64(FALSE, r.d)]

\* [ok, d] with d the int64 of the Duration
ParseDuration(s) ==
    LET signed == s # "" /\ At(s, 1) \in {"-", "+"}
        neg    == s # "" /\ At(s, 1) = "-"
        start  == IF signed THEN 2 ELSE 1
        rest   == SubSeq(s, start, Len(s))
    IN  IF rest = "0" THEN [ok |-> TRUE, d |-> Int64(0)]
        ELSE IF rest = "" THEN [ok |-> FALSE, d |-> Int64(0)]
        ELSE SignedDuration(neg, ParseTerms(s, start, <<>>))

-----------------------------------------------------------------------------
(* time.Time as (seconds since the epoch, nanoseconds within the second).  *)

\* Time.Unix
Unix(t) == t.sec

\* d / 1e9 and d % 1e9 of a Duration, both with the sign of d: [sec, nsec]
DurSplit(d) ==
    LET d1 == DivSmall(d.mag, 1000)
        d2 == DivSmall(d1.q, 1000)
        d3 == DivSmall(d2.q, 1000)
        r  == d1.r + 1000 * d2.r + 1000000 * d3.r
    IN  [sec |-> I64(d.neg, d3.q), nsec |-> IF d.neg THEN -r ELSE r]

\* Time.Add: the nanoseconds are brought back into [0, 1e9)
TimeAdd(t, d) ==
    LET dsec == DurSplit(d).sec
        nsec == t.nsec + DurSplit(d).nsec
    IN  IF nsec >= Second
        THEN [sec |-> I64Add(t.sec, I64Add(dsec, Int64(1))), nsec |-> nsec - Second]
        ELSE IF nsec < 0
        THEN [sec |-> I64Add(t.sec, I64Add(dsec, Int64(-1))), nsec |-> nsec + Second]
        ELSE [sec |-> I64Add(t.sec, dsec), nsec |-> nsec]


-----------------------------------------------------------------------------
(* Go maps (jwt.MapClaims, map[string]any) and the values they hold.       *)
(*                                                                         *)
(* A node is one of                                                        *)
(*    [str |-> s]            a string                                      *)
(*    [bool |-> b]           a boolean                                     *)
(*    [int |-> n]            an integer, n an int64                        *)
(*    [float |-> n]          a float64 of integral value n, as [neg, mag]  *)
(*                           (a JSON number)                               *)
(*    [chan |-> c]           a value encoding/json cannot marshal          *)
(*    [ref |-> a, ty |-> t]  the map in heap cell a, of dynamic type t     *)
(* A deep value is the same with [map |-> m, ty |-> t] for [ref, ty]: the  *)
(* contents of a map followed through its references.                      *)

TyMapClaims == "jwt.MapClaims"
TyMapAny == "map[string]any"

IsStr(v) == "str" \in DOMAIN v
IsRef(v) == "ref" \in DOMAIN v
IsMap(v) == "map" \in DOMAIN v
IsScalar(v) == ~IsStr(v) /\ ~IsRef(v) /\ ~IsMap(v)

EmptyMap == <<>>

\* the keys of the map at address a; ranging over a nil map visits nothing
KeysOf(h, a) == IF a = 0 THEN {} ELSE DOMAIN h[a]

\* m[k] = v on the map at address a
MapAssign(h, a, k, v) == [h EXCEPT ![a] = (k :> v) @@ @]

\* the deep value of the map at address a
RECURSIVE Load(_, _)
Load(h, a) ==
    IF a = 0 THEN EmptyMap
    ELSE [k \in DOMAIN h[a] |->
            IF IsRef(h[a][k])
            THEN [map |-> Load(h, h[a][k].ref), ty |-> h[a][k].ty]
            ELSE h[a][k]]

\* the cells reachable from address a
RECURSIVE Reach(_, _)
Reach(h, a) ==
    IF a = 0 THEN {}
    ELSE {a} \cup UNION {Reach(h, h[a][k].ref) : k \in {x \in DOMAIN h[a] : IsRef(h[a][x])}}

\* Construction of the map with deep value m: a map literal built entry by
\* entry, nested maps first.  [heap, addr]
RECURSIVE Store(_, _)
RECURSIVE StoreKeys(_, _, _, _)
Store(h, m) == StoreKeys(Append(h, EmptyMap), Len(h) + 1, m, DOMAIN m)

StoreKeys(h, a, m, ks) ==
    IF ks = {} THEN [heap |-> h, addr |-> a]
    ELSE LET k == CHOOSE x \in ks : TRUE
         IN  IF IsMap(m[k])
             THEN LET n == Store(h, m[k].map)
                  IN  StoreKeys(MapAssign(n.heap, a, k, [ref |-> n.addr, ty |-> m[k].ty]),
                                a, m, ks \ {k})
             ELSE StoreKeys(MapAssign(h, a, k, m[k]), a, m, ks \ {k})

-----------------------------------------------------------------------------
(* fillClaims (signer.go:99-128).                                          *)

\* the case of the type switch v.(type) that a value takes: a case names a
\* dynamic type, and jwt.MapClaims is a type of its own
TypeCase(v) ==
    IF IsStr(v) THEN "string"
    ELSE IF IsRef(v) /\ v.ty = TyMapAny THEN TyMapAny
    ELSE "default"

\* (mutation: the expansion is stored even when it is empty)
FillStringAlways(h, cs, k, val, r) ==
    MapAssign(h, cs, k, [str |-> ReplaceAll(r, val)])

\* case string: the expansion is kept unless it is empty
FillString(h, cs, k, val, r) ==
    LET valExpanded == ReplaceAll(r, val)
    IN  IF valExpanded # "" THEN MapAssign(h, cs, k, [str |-> valExpanded]) ELSE h

\* (mutation: the value is dropped)
FillDefaultSkip(h, cs, k, v) == h

\* default: the value is stored as it is
FillDefault(h, cs, k, v) == MapAssign(h, cs, k, v)

\* (mutation: the nested map is stored even when it is nil)
FillNestedAlways(h, cs, k, nested) ==
    MapAssign(h, cs, k, [ref |-> nested, ty |-> TyMapClaims])

\* if nested != nil { cs[k] = nested }
FillNestedAssign(h, cs, k, nested) ==
    IF nested # 0 THEN MapAssign(h, cs, k, [ref |-> nested, ty |-> TyMapClaims]) ELSE h

\* if len(cs) > 0 { *claims = cs }: the new value of *claims
FillResult(h, cs, claims) ==
    IF Cardinality(DOMAIN h[cs]) > 0 THEN cs ELSE claims

\* fillClaims(pat, repl, l, claims) with *claims = claims on entry:
\* [heap, claims] on return
RECURSIVE FillClaims(_, _, _, _)
RECURSIVE FillRange(_, _, _, _, _)

\* (mutation: cs := pat, the template is expanded in place)
FillClaimsInPlace(h, pat, r, claims) ==
    IF pat = 0 THEN [heap |-> h, claims |-> claims]
    ELSE LET h1 == FillRange(h, pat, KeysOf(h, pat), r, pat)
         IN  [heap |-> h1, claims |-> FillResult(h1, pat, claims)]

FillClaims(h, pat, r, claims) ==
    LET cs == Len(h) + 1
        h1 == FillRange(Append(h, EmptyMap), pat, KeysOf(h, pat), r, cs)
    IN  [heap |-> h1, claims |-> FillResult(h1, cs, claims)]

\* for k, v := range pat, the keys ks still to visit
FillRange(h, pat, ks, r, cs) ==
    IF ks = {} THEN h
    ELSE LET k == CHOOSE x \in ks : TRUE
             v == h[pat][k]
         IN  CASE TypeCase(v) = "string" ->
                    FillRange(FillString(h, cs, k, v.str, r), pat, ks \ {k}, r, cs)
               [] TypeCase(v) = TyMapAny ->
                    LET n == FillClaims(h, v.ref, r, 0)
                    IN  FillRange(FillNestedAssign(n.heap, cs, k, n.claims),
                                  pat, ks \ {k}, r, cs)
               [] OTHER ->
                    FillRange(FillDefault(h, cs, k, v), pat, ks \ {k}, r, cs)

-----------------------------------------------------------------------------
(* caddyfile.Dispenser: a cursor over the tokens of the directive.  A      *)
(* token is [text, line, file, imports, wasQuoted], wasQuoted "<" on a     *)
(* heredoc; the cursor is Go's, -1 before the first token.                 *)
(* Every method that moves the cursor returns the dispenser it leaves.     *)

NewDispenser(tokens) == [tokens |-> tokens, cursor |-> -1, nesting |-> 0]

\* Dispenser.Val
Val(d) ==
    IF d.cursor < 0 \/ d.cursor >= Len(d.tokens) THEN ""
    ELSE d.tokens[d.cursor + 1].text

\* Dispenser.Next
Next(d) ==
    IF d.cursor < Len(d.tokens) - 1
    THEN [d |-> [d EXCEPT !.cursor = @ + 1], ok |-> TRUE]
    ELSE [d |-> d, ok |-> FALSE]

\* Token.NumLineBreaks: those of the text, and two more on a heredoc
NumLineBreaks(t) ==
    Cardinality({i \in 1..Len(t.text) : At(t.text, i) = "\n"})
        + (IF t.wasQuoted = "<" THEN 2 ELSE 0)

\* isNextOnNewLine: another file, another chain of imports, or a line after
\* the one t1 ends on
IsNextOnNewLine(t1, t2) ==
    \/ t1.file # t2.file
    \/ t1.imports # t2.imports
    \/ t1.line + NumLineBreaks(t1) < t2.line

\* Dispenser.nextOnSameLine
NextOnSameLine(d) ==
    IF d.cursor < 0 THEN [d |-> [d EXCEPT !.cursor = @ + 1], ok |-> TRUE]
    ELSE IF d.cursor >= Len(d.tokens) - 1 THEN [d |-> d, ok |-> FALSE]
    ELSE IF ~IsNextOnNewLine(d.tokens[d.cursor + 1], d.tokens[d.cursor + 2])
         THEN [d |-> [d EXCEPT !.cursor = @ + 1], ok |-> TRUE]
         ELSE [d |-> d, ok |-> FALSE]

\* Dispenser.NextArg: a block opening is not an argument
NextArg(d) ==
    LET n == NextOnSameLine(d)
    IN  IF ~n.ok THEN [d |-> n.d, ok |-> FALSE]
        ELSE IF Val(n.d) = "{" THEN [d |-> [n.d EXCEPT !.cursor = @ - 1], ok |-> FALSE]
        ELSE [d |-> n.d, ok |-> TRUE]

\* Dispenser.NextBlock(initialNestingLevel).  Inside a block the two tests
\*    if d.Val() == "}" && !d.nextOnSameLine() { d.nesting-- }
\*    else if d.Val() == "{" && !d.nextOnSameLine() { d.nesting++ }
\* each move the cursor when nextOnSameLine succeeds, and the second reads
\* the token the first has left the cursor on.
NextBlock(d, initial) ==
    IF d.nesting > initial
    THEN LET n == Next(d)
             c == IF Val(n.d) = "}" THEN NextOnSameLine(n.d) ELSE [d |-> n.d, ok |-> TRUE]
             closes == Val(n.d) = "}" /\ ~c.ok
             o == IF Val(c.d) = "{" THEN NextOnSameLine(c.d) ELSE [d |-> c.d, ok |-> TRUE]
             opens == Val(c.d) = "{" /\ ~o.ok
             d2 == IF closes THEN [c.d EXCEPT !.nesting = @ - 1]
                   ELSE IF opens THEN [o.d EXCEPT !.nesting = @ + 1]
                   ELSE o.d
         IN  IF ~n.ok THEN [d |-> n.d, ok |-> FALSE]
             ELSE [d |-> d2, ok |-> d2.nesting > initial]
    ELSE LET s == NextOnSameLine(d)
         IN  IF ~s.ok THEN [d |-> s.d, ok |-> FALSE]
             ELSE IF Val(s.d) # "{"
             THEN [d |-> [s.d EXCEPT !.cursor = @ - 1], ok |-> FALSE]
             ELSE LET n == Next(s.d).d
                  IN  IF Val(n) = "}" THEN [d |-> n, ok |-> FALSE]
                      ELSE [d |-> [n EXCEPT !.nesting = @ + 1], ok |-> TRUE]

-----------------------------------------------------------------------------
(* parseClaimsCaddyfile (signer.go:151-192) and UnmarshalCaddyfile         *)
(* (signer.go:137-149).  The claims are a deep value; `set' tells whether  *)
(* *claims was assigned (it stays nil otherwise).                          *)

ParseErr(d) == [d |-> d, err |-> TRUE, set |-> FALSE, cs |-> EmptyMap]

\* (mutation: further arguments are not looked for)
TooManyArgsIgnored(d) == FALSE

\* if d.NextArg() { return d.Errf("too many arguments ...") }
TooManyArgs(d) == NextArg(d).ok

\* if len(cs) > 0 { *claims = cs }; return nil
ParseResult(d, cs) ==
    [d |-> d, err |-> FALSE, set |-> Cardinality(DOMAIN cs) > 0, cs |-> cs]

RECURSIVE ParseClaimsCaddyfile(_)
RECURSIVE ParseLoop(_, _, _)
ParseClaimsCaddyfile(d) == ParseLoop(d, d.nesting, EmptyMap)

\* for nesting := d.Nesting(); d.NextBlock(nesting); { ... }
ParseLoop(d, nesting, cs) ==
    LET b == NextBlock(d, nesting)
    IN  IF ~b.ok THEN ParseResult(b.d, cs)
        ELSE
          LET key == Val(b.d)
              a   == NextArg(b.d)
              val == Val(a.d)
          IN  IF key = "" THEN ParseErr(b.d)
              ELSE IF a.ok
              THEN IF val = "" THEN ParseErr(a.d)
                   ELSE IF TooManyArgs(a.d) THEN ParseErr(NextArg(a.d).d)
                   ELSE ParseLoop(NextArg(a.d).d, nesting, (key :> [str |-> val]) @@ cs)
              ELSE LET n == ParseClaimsCaddyfile(a.d)
                   IN  IF n.err THEN ParseErr(n.d)
                       ELSE IF n.set
                       THEN ParseLoop(n.d, nesting,
                                      (key :> [map |-> n.cs, ty |-> TyMapClaims]) @@ cs)
                       ELSE ParseErr(n.d)

\* UnmarshalCaddyfile: [err, dur, secret, set, cs]
UnmarshalCaddyfile(d) ==
    LET d1 == Next(d).d             \* consume directive name
        a1 == NextArg(d1)
        a2 == NextArg(a1.d)
        a3 == NextArg(a2.d)
        p  == ParseClaimsCaddyfile(a3.d)
        failed == [err |-> TRUE, dur |-> IF a1.ok THEN Val(a1.d) ELSE "",
                   secret |-> IF a1.ok /\ a2.ok THEN Val(a2.d) ELSE "",
                   set |-> FALSE, cs |-> EmptyMap]
    IN  IF ~a1.ok \/ ~a2.ok THEN failed
        ELSE IF a3.ok THEN failed
        ELSE [err |-> p.err, dur |-> Val(a1.d), secret |-> Val(a2.d),
              set |-> p.set, cs |-> p.cs]

\* Validate (signer.go:37-50): an error when a required parameter is missing
Validate(dur, secret) == dur = "" \/ secret = ""

-----------------------------------------------------------------------------
(* The Caddyfile text of a directive, as the tokens the lexer makes of it  *)
(* (README.md, "Caddyfile Syntax").  An entry is                           *)
(*    [key, args, hasBlock, block]                                         *)
(* written "key args... {" / the block's entries, each from a line of its *)
(* own / "}".                                                              *)

Tok(text, line) ==
    [text |-> text, line |-> line, file |-> "Caddyfile", imports |-> <<>>,
     wasQuoted |-> ""]

\* the tokens of the words from line `line' on, a word with line breaks in
\* it (a quoted one) ending on a later line: [toks, line]
RECURSIVE ArgTokens(_, _)
ArgTokens(args, line) ==
    IF args = <<>> THEN [toks |-> <<>>, line |-> line]
    ELSE LET t    == Tok(Head(args), line)
             rest == ArgTokens(Tail(args), line + NumLineBreaks(t))
         IN  [toks |-> <<t>> \o rest.toks, line |-> rest.line]

\* the tokens of the entries from line `line' on: [toks, line]
RECURSIVE EntryTokens(_, _)
EntryTokens(entries, line) ==
    IF entries = <<>> THEN [toks |-> <<>>, line |-> line]
    ELSE LET e    == Head(entries)
             hd   == ArgTokens(<<e.key>> \o e.args, line)
             blk  == EntryTokens(e.block, hd.line + 1)
             mine == IF e.hasBlock
                     THEN [toks |-> hd.toks \o <<Tok("{", hd.line)>> \o blk.toks
                                       \o <<Tok("}", blk.line)>>,
                           line |-> blk.line + 1]
                     ELSE [toks |-> hd.toks, line |-> hd.line + 1]
             rest == EntryTokens(Tail(entries), mine.line)
         IN  [toks |-> mine.toks \o rest.toks, line |-> rest.line]

\* jwt_signer <args...> [{ entries }]
DirectiveTokens(args, hasBlock, entries) ==
    EntryTokens(<<[key |-> "jwt_signer", args |-> args,
                   hasBlock |-> hasBlock, block |-> entries]>>, 1).toks

-----------------------------------------------------------------------------
(* jwt.NewWithClaims(jwt.SigningMethodHS256, cs) and Token.SignedString    *)
(* (signer.go:87-92).  The token is header.payload.signature; the payload  *)
(* is the JSON encoding of the claims, which writes the keys of a map in   *)
(* sorted order; the signature is kept symbolic: the HMAC of the text      *)
(* before it under the key.                                                *)

\* the keys of a map as encoding/json writes them: sorted as strings
RECURSIVE SortedKeys(_)
SortedKeys(ks) ==
    IF ks = {} THEN <<>>
    ELSE LET k == CHOOSE x \in ks : \A y \in ks : StrLeq(x, y)
         IN  <<k>> \o SortedKeys(ks \ {k})

HexDigit(n) == SubSeq("0123456789abcdef", n + 1, n + 1)

\* a character of a string as encoding/json writes it (with its escaping
\* of HTML, which json.Marshal has on): the quote and the backslash after a
\* backslash, the characters below 32 in their short form or as \u00XX,
\* those of HTML as \u00XX.  (The line separators 8232 and 8233, which it
\* writes as \u2028 and \u2029, are not characters of a TLA+ string.)
EscapeChar(c) ==
    IF c = "\"" THEN "\\\""
    ELSE IF c = "\\" THEN "\\\\"
    ELSE IF c = "\n" THEN "\\n"
    ELSE IF c = "\r" THEN "\\r"
    ELSE IF c = "\t" THEN "\\t"
    ELSE IF c = "\f" THEN "\\f"
    ELSE IF c = SubSeq(Ctl1, 8, 8) THEN "\\b"
    ELSE IF c \in DOMAIN CodeOf /\ CodeOf[c] < 32
    THEN "\\u00" \o HexDigit(CodeOf[c] \div 16) \o HexDigit(CodeOf[c] % 16)
    ELSE IF c = "<" THEN "\\u003c"
    ELSE IF c = ">" THEN "\\u003e"
    ELSE IF c = "&" THEN "\\u0026"
    ELSE c

\* the characters lo..hi of a string, each as encoding/json writes it
RECURSIVE EscapeRange(_, _, _)
EscapeRange(s, lo, hi) ==
    IF lo > hi THEN ""
    ELSE IF lo = hi THEN EscapeChar(At(s, lo))
    ELSE LET mid == (lo + hi) \div 2
         IN  EscapeRange(s, lo, mid) \o EscapeRange(s, mid + 1, hi)

Escape(s) == EscapeRange(s, 1, Len(s))

\* a string, or a key, between quotes
Quote(s) == "\"" \o Escape(s) \o "\""

\* json.Marshal fails on a value it has no encoding for
RECURSIVE Marshalable(_)
Marshalable(m) ==
    \A k \in DOMAIN m :
        /\ "chan" \notin DOMAIN m[k]
        /\ IsMap(m[k]) => Marshalable(m[k].map)

RECURSIVE Marshal(_)
RECURSIVE MarshalKeys(_, _)
Marshal(m) == "{" \o MarshalKeys(m, SortedKeys(DOMAIN m)) \o "}"

MarshalKeys(m, ks) ==
    IF ks = <<>> THEN ""
    ELSE LET v == m[Head(ks)]
             e == IF IsStr(v) THEN Quote(v.str)
                  ELSE IF IsMap(v) THEN Marshal(v.map)
                  ELSE IF "bool" \in DOMAIN v
                       THEN (IF v.bool THEN "true" ELSE "false")
                  ELSE IF "float" \in DOMAIN v
                       THEN FormatFloat(v.float)
                  ELSE FormatInt(v.int)
         IN  Quote(Head(ks)) \o ":" \o e
                 \o (IF Len(ks) > 1 THEN "," ELSE "") \o MarshalKeys(m, Tail(ks))

JwtHeader == "{\"alg\":\"HS256\",\"typ\":\"JWT\"}"

\* [ok, tok]
SignedString(claims, key) ==
    IF ~Marshalable(claims) THEN [ok |-> FALSE, tok |-> ""]
    ELSE [ok  |-> TRUE,
          tok |-> JwtHeader \o "." \o Marshal(claims) \o ".HS256(" \o key \o ")"]

-----------------------------------------------------------------------------
(* The handler Caddy serves.  The JwtSigner that parseCaddyfile returns is *)
(* encoded as JSON, under the names of the struct's fields                 *)
(*    {"duration": ..., "secret": ..., "Claims": ...}                      *)
(* (signer.go:22-27), and the handler that is provisioned is a             *)
(* new(JwtSigner) (signer.go:130-135) that this JSON is decoded into.  The *)
(* decoder makes a string of a JSON string, a map[string]any of an object  *)
(* held in an `any', a float64 of a number, and leaves a map nil on null.  *)

\* the value of a hexadecimal digit
HexVal(c) ==
    IF IndexFrom("0123456789abcdef", c, 1) # 0
    THEN IndexFrom("0123456789abcdef", c, 1) - 1
    ELSE IndexFrom("0123456789ABCDEF", c, 1) - 1

\* the character of a code
CharOf(n) == CHOOSE c \in DOMAIN CodeOf : CodeOf[c] = n

\* the character that follows a backslash in a JSON string, decoded
Unescaped(c) ==
    IF c = "n" THEN "\n"
    ELSE IF c = "r" THEN "\r"
    ELSE IF c = "t" THEN "\t"
    ELSE IF c = "f" THEN "\f"
    ELSE IF c = "b" THEN SubSeq(Ctl1, 8, 8)
    ELSE c                          \* the quote, the backslash, the slash

\* the characters that the JSON string literal s holds from position i on,
\* up to its closing quote
RECURSIVE UnquoteFrom(_, _)
UnquoteFrom(s, i) ==
    IF i >= Len(s) THEN ""
    ELSE IF At(s, i) # "\\" THEN At(s, i) \o UnquoteFrom(s, i + 1)
    ELSE IF At(s, i + 1) = "u"
    THEN CharOf(4096 * HexVal(At(s, i + 2)) + 256 * HexVal(At(s, i + 3))
                  + 16 * HexVal(At(s, i + 4)) + HexVal(At(s, i + 5)))
             \o UnquoteFrom(s, i + 6)
    ELSE Unescaped(At(s, i + 1)) \o UnquoteFrom(s, i + 2)

\* the string of a JSON string literal
Unquote(s) == UnquoteFrom(s, 2)

\* a string encoded and decoded
DecodeString(s) == Unquote(Quote(s))

\* claims that json.Marshal encodes, encoded and decoded: the keys and the
\* strings through their JSON literals, every nested map a map[string]any,
\* every number, through its digits, a float64
RECURSIVE DecodedMap(_)
DecodedMap(m) ==
    [k2 \in {DecodeString(k) : k \in DOMAIN m} |->
        LET v == m[CHOOSE k \in DOMAIN m : DecodeString(k) = k2]
        IN  IF IsStr(v) THEN [str |-> DecodeString(v.str)]
            ELSE IF IsMap(v) THEN [map |-> DecodedMap(v.map), ty |-> TyMapAny]
            ELSE IF "int" \in DOMAIN v
            THEN [float |-> I64(v.int.neg, FloatToUint(FloatOf(v.int.mag)))]
            ELSE IF "float" \in DOMAIN v
            THEN [float |-> I64(v.float.neg, FloatToUint(FloatOf(Shortest(v.float.mag))))]
            ELSE v]

\* the claims encoded and decoded, an error when json.Marshal has no
\* encoding for one of the values: [err, cs]
DecodeClaims(m) ==
    IF Marshalable(m) THEN [err |-> FALSE, cs |-> DecodedMap(m)]
    ELSE [err |-> TRUE, cs |-> EmptyMap]

-----------------------------------------------------------------------------
(* JwtSigner.ServeHTTP (signer.go:52-97), one action per step.  req[r] is  *)
(* the execution for request r:                                            *)
(*    pc        where it stands                                            *)
(*    ctxRepl   what the request context holds under ReplacerCtxKey: a     *)
(*              "replacer", a "nil" *Replacer, or "none" (no value)        *)
(*    durStr, secret, dur, cs, now, tosStr   the locals of the same names  *)
(*    ret       "" while running, then "error" or "next" (the next         *)
(*              handler's own result is returned)                          *)
(* and, recorded for the properties only:                                  *)
(*    ctx0      the replacer's contents when the request arrived           *)
(*    expanded  the claims as fillClaims left them                         *)
(*    signed    the claims the token was signed over                       *)
(*    signErr   whether SignedString failed                                *)
(*    trace     the steps taken, in order                                  *)
(*    seen      what the next handler read under DigestKey                 *)

ZeroDur == Int64(0)
ZeroTime == [sec |-> Int64(0), nsec |-> 0]

NewRequest(ctx, ctxRepl) ==
    [pc |-> "start", ctxRepl |-> ctxRepl, durStr |-> "", secret |-> "",
     dur |-> ZeroDur, cs |-> 0, now |-> ZeroTime, tosStr |-> "", ret |-> "",
     ctx0 |-> ctx, expanded |-> EmptyMap, signed |-> EmptyMap,
     signErr |-> FALSE, trace |-> <<>>, seen |-> ""]

\* the instants time.Now() may return
Times == {[sec |-> Int64(1000), nsec |-> 0],
          [sec |-> Int64(1700000000), nsec |-> 600000000]}

Return(q, step) == [q EXCEPT !.pc = "done", !.ret = "error", !.trace = Append(@, step)]

Goto(q, pc, step) == [q EXCEPT !.pc = pc, !.trace = Append(@, step)]

\* (mutation: the secret is not checked)
EmptyParamDurOnly(durStr, secret) == durStr = ""

\* signer.go:67-71: a required parameter is empty after replacements
EmptyParam(durStr, secret) == durStr = "" \/ secret = ""

\* (mutation: cs starts as the nil map)
NewClaimsNil(h) == [heap |-> h, addr |-> 0]

\* signer.go:80: cs := jwt.MapClaims{}, a new empty map: [heap, addr]
NewClaims(h) == [heap |-> Append(h, EmptyMap), addr |-> Len(h) + 1]

\* signer.go:84: now.Unix()
IatOf(now) == Unix(now)

\* (mutation: the duration is not added)
ExpOfNoAdd(now, dur) == Unix(now)

\* (mutation: a fixed validity of one hour)
ExpOfFixed(now, dur) == I64Add(Unix(now), Int64(3600))

\* signer.go:85: now.Add(dur).Unix()
ExpOf(now, dur) == Unix(TimeAdd(now, dur))

\* (mutation: the token is set under another name)
PublishTokenOther(r, tosStr) == ReplSet(r, "http.jwt_signer.digest", tosStr)

\* signer.go:94: repl.Set("http.jwt_signer.digest_str", tosStr)
PublishToken(r, tosStr) == ReplSet(r, DigestKey, tosStr)

\* the cells of h2 that are new or differ from h1
Written(h1, h2) == {a \in 1..Len(h2) : a > Len(h1) \/ h2[a] # h1[a]}

\* signer.go:53-60.  s.l.Debug panics on the nil logger of a handler that
\* was not provisioned; the type assertion .(*caddy.Replacer) panics when
\* the context holds no value under the key, and gives the nil pointer
\* that the test of :56 catches when it holds one.
Resolve(r) ==
    /\ req[r].pc = "start"
    /\ req' = [req EXCEPT ![r] =
                 IF ~sL \/ @.ctxRepl = "none" THEN [@ EXCEPT !.pc = "panic"]
                 ELSE IF @.ctxRepl = "nil" THEN Return(@, "no replacer")
                 ELSE Goto([@ EXCEPT !.durStr = ReplaceAll(repl[r], sDur),
                                     !.secret = ReplaceAll(repl[r], sSecret)],
                           "resolved", "resolve")]
    /\ UNCHANGED <<heap, sDur, sSecret, sL, sClaims, claims0, repl, writes, cfg>>

\* signer.go:62-71
CheckParams(r) ==
    /\ req[r].pc = "resolved"
    /\ req' = [req EXCEPT ![r] =
                 IF EmptyParam(@.durStr, @.secret) THEN Return(@, "empty parameter")
                 ELSE Goto(@, "checked", "check")]
    /\ UNCHANGED <<heap, sDur, sSecret, sL, sClaims, claims0, repl, writes, cfg>>

\* signer.go:73-76
ParseDur(r) ==
    /\ req[r].pc = "checked"
    /\ \E p \in {ParseDuration(req[r].durStr)} :
           req' = [req EXCEPT ![r] =
                     IF ~p.ok THEN Return(@, "invalid duration")
                     ELSE Goto([@ EXCEPT !.dur = p.d], "parsed", "parse")]
    /\ UNCHANGED <<heap, sDur, sSecret, sL, sClaims, claims0, repl, writes, cfg>>

\* signer.go:80-81
Expand(r) ==
    /\ req[r].pc = "parsed"
    /\ \E c \in {NewClaims(heap)} :
       \E f \in {FillClaims(c.heap, sClaims, repl[r], c.addr)} :
           /\ heap' = f.heap
           /\ writes' = writes \cup {[addr |-> a, by |-> r] : a \in Written(heap, f.heap)}
           /\ req' = [req EXCEPT ![r] =
                        Goto([@ EXCEPT !.cs = f.claims,
                                       !.expanded = Load(f.heap, f.claims)],
                             "expanded", "expand")]
    /\ UNCHANGED <<sDur, sSecret, sL, sClaims, claims0, repl, cfg>>

\* signer.go:83-84; an assignment to an entry of a nil map panics
StampIat(r) ==
    /\ req[r].pc = "expanded"
    /\ \E now \in Times :
         IF req[r].cs = 0
         THEN /\ req' = [req EXCEPT ![r] = [@ EXCEPT !.pc = "panic", !.now = now]]
              /\ UNCHANGED <<heap, writes>>
         ELSE /\ heap' = MapAssign(heap, req[r].cs, "iat", [int |-> IatOf(now)])
              /\ writes' = writes \cup {[addr |-> req[r].cs, by |-> r]}
              /\ req' = [req EXCEPT ![r] = [@ EXCEPT !.pc = "iat", !.now = now]]
    /\ UNCHANGED <<sDur, sSecret, sL, sClaims, claims0, repl, cfg>>

\* signer.go:85
StampExp(r) ==
    /\ req[r].pc = "iat"
    /\ heap' = MapAssign(heap, req[r].cs, "exp", [int |-> ExpOf(req[r].now, req[r].dur)])
    /\ writes' = writes \cup {[addr |-> req[r].cs, by |-> r]}
    /\ req' = [req EXCEPT ![r] = [@ EXCEPT !.pc = "exp"]]
    /\ UNCHANGED <<sDur, sSecret, sL, sClaims, claims0, repl, cfg>>

\* signer.go:87-92
Sign(r) ==
    /\ req[r].pc = "exp"
    /\ \E claims \in {Load(heap, req[r].cs)} :
       \E t \in {SignedString(claims, req[r].secret)} :
           req' = [req EXCEPT ![r] =
                     IF ~t.ok THEN Return([@ EXCEPT !.signErr = TRUE], "sign error")
                     ELSE Goto([@ EXCEPT !.tosStr = t.tok, !.signed = claims],
                               "signed", "sign")]
    /\ UNCHANGED <<heap, sDur, sSecret, sL, sClaims, claims0, repl, writes, cfg>>

\* signer.go:94
Publish(r) ==
    /\ req[r].pc = "signed"
    /\ repl' = [repl EXCEPT ![r] = PublishToken(@, req[r].tosStr)]
    /\ req' = [req EXCEPT ![r] = Goto(@, "published", "set")]
    /\ UNCHANGED <<heap, sDur, sSecret, sL, sClaims, claims0, writes, cfg>>

\* signer.go:96: the next handler runs and reads the placeholder
CallNext(r) ==
    /\ req[r].pc = "published"
    /\ req' = [req EXCEPT ![r] =
                 [Goto(@, "done", "next") EXCEPT !.ret = "next",
                                                 !.seen = ReplGet(repl[r], DigestKey)]]
    /\ UNCHANGED <<heap, sDur, sSecret, sL, sClaims, claims0, repl, writes, cfg>>

\* the requests in flight each take their steps in any order
ServeHTTP ==
    \E r \in DOMAIN req :
        \/ Resolve(r)
        \/ CheckParams(r)
        \/ ParseDur(r)
        \/ Expand(r)
        \/ StampIat(r)
        \/ StampExp(r)
        \/ Sign(r)
        \/ Publish(r)
        \/ CallNext(r)

-----------------------------------------------------------------------------
(* Loading the configuration: parseCaddyfile (signer.go:194-198) runs      *)
(* UnmarshalCaddyfile on a fresh JwtSigner; the handler is a new JwtSigner *)
(* decoded from the JSON of that one; Provision and then Validate are      *)
(* called on the handler.  cfg.phase: "caddyfile" (not yet read),          *)
(* "rejected", "parsed" (s is the struct parseCaddyfile returned),         *)
(* "loaded" (from here on s is the handler), "provisioned", "invalid",     *)
(* "valid" (serving).                                                      *)

NoInput == [args |-> <<>>, hasBlock |-> FALSE, entries |-> <<>>]

LoadCaddyfile ==
    /\ cfg.phase = "caddyfile"
    /\ \E u \in {UnmarshalCaddyfile(NewDispenser(
                    DirectiveTokens(cfg.input.args, cfg.input.hasBlock, cfg.input.entries)))} :
       \E st \in {Store(heap, u.cs)} :
           /\ sDur' = u.dur
           /\ sSecret' = u.secret
           /\ heap' = IF u.set THEN st.heap ELSE heap
           /\ sClaims' = IF u.set THEN st.addr ELSE 0
           /\ claims0' = u.cs
           /\ cfg' = [cfg EXCEPT !.phase = IF u.err THEN "rejected" ELSE "parsed"]
    /\ UNCHANGED <<sL, repl, req, writes>>

\* CaddyModule().New (signer.go:130-135) and the decoding of the JSON of
\* the parsed struct into it: the claims are new maps, the logger is nil
LoadModule ==
    /\ cfg.phase = "parsed"
    /\ \E dec \in {DecodeClaims(Load(heap, sClaims))} :
       \E st \in {Store(heap, dec.cs)} :
           /\ ~dec.err
           /\ sDur' = DecodeString(sDur)
           /\ sSecret' = DecodeString(sSecret)
           /\ sL' = FALSE
           /\ heap' = IF sClaims # 0 THEN st.heap ELSE heap
           /\ sClaims' = IF sClaims # 0 THEN st.addr ELSE 0
           /\ claims0' = dec.cs
           /\ cfg' = [cfg EXCEPT !.phase = "loaded"]
    /\ UNCHANGED <<repl, req, writes>>

\* Provision (signer.go:29-35): s.l = ctx.Logger()
Provision ==
    /\ cfg.phase = "loaded"
    /\ sL' = TRUE
    /\ cfg' = [cfg EXCEPT !.phase = "provisioned"]
    /\ UNCHANGED <<heap, sDur, sSecret, sClaims, claims0, repl, req, writes>>

ValidateConfig ==
    /\ cfg.phase = "provisioned"
    /\ cfg' = [cfg EXCEPT !.phase = IF Validate(sDur, sSecret) THEN "invalid" ELSE "valid"]
    /\ UNCHANGED <<heap, sDur, sSecret, sL, sClaims, claims0, repl, req, writes>>

-----------------------------------------------------------------------------
(* Inputs.                                                                 *)

Str(x) == [str |-> x]
Nested(m, ty) == [map |-> m, ty |-> ty]
Num(n) == [float |-> Int64(n)]

\* a handler decoded from its JSON configuration: template tpl (absent
\* when ~has), s.Dur, s.Secret
Configured(has, tpl, dur, secret) ==
    /\ heap = IF has THEN Store(<<>>, tpl).heap ELSE <<>>
    /\ sClaims = IF has THEN 1 ELSE 0
    /\ claims0 = IF has THEN tpl ELSE EmptyMap
    /\ sDur = dur
    /\ sSecret = secret
    /\ writes = {}
    /\ cfg = [phase |-> "valid", input |-> NoInput]

\* the template of the specification's end-to-end scenario, as the JSON
\* configuration holds it (nested objects decode to map[string]any)
ScenarioTemplate ==
    [sub |-> Str("{user}"), admin |-> [bool |-> TRUE],
     profile |-> Nested([name |-> Str("{name}")], TyMapAny)]

\* README.md, "Nested Claims and Placeholders"
ReadmeEntries ==
    << [key |-> "user", args |-> <<>>, hasBlock |-> TRUE,
        block |-> << [key |-> "id", args |-> <<"{user}">>, hasBlock |-> FALSE, block |-> <<>>],
                     [key |-> "name", args |-> <<"{name}">>, hasBlock |-> FALSE, block |-> <<>>] >>],
       [key |-> "roles", args |-> <<"admin editor">>, hasBlock |-> FALSE, block |-> <<>>] >>

\* the claims of the handler that a Caddyfile directive is loaded as
HandlerClaims(args, hasBlock, entries) ==
    DecodeClaims(UnmarshalCaddyfile(NewDispenser(DirectiveTokens(args, hasBlock, entries))).cs).cs

ReadmeTemplate == HandlerClaims(<<"1h", "s3">>, TRUE, ReadmeEntries)

\* a template whose claims collide with the injected ones, with a number
\* (2^60) that is not written digit for digit
StampedTemplate ==
    [iat |-> Str("{user}"), exp |-> Num(7), sub |-> Str("lit"),
     a |-> Str("\\{user}{user\\}}"), b |-> Str("<\"{user}\">"),
     big |-> [float |-> I64(FALSE, Shl(<<1>>, 60))]]

\* a template holding a value that cannot be marshalled (no configuration
\* decodes to one: it is there for the failure of SignedString)
ChanTemplate == [sub |-> Str("lit"), a |-> [chan |-> "c"]]

\* generated templates: leaves, and maps nested to depth d.  A nested map
\* is a map[string]any and a number a float64, as the JSON configuration
\* decodes them.
Leaves == {Str("{user}"), Str("{name}"), Str("x{name}"), [bool |-> TRUE], Num(7)}

SideLeaves == {Str("{name}"), [bool |-> TRUE]}

LeafMaps ==
    {EmptyMap} \cup {("a" :> l) : l \in Leaves}
               \cup {("a" :> l) @@ ("b" :> m) : l \in Leaves, m \in SideLeaves}

Sides == {EmptyMap, ("b" :> [bool |-> TRUE])}

RECURSIVE Templates(_)
Templates(d) ==
    IF d = 0 THEN LeafMaps
    ELSE LeafMaps \cup {("n" :> Nested(t, TyMapAny)) @@ side :
                           t \in Templates(d - 1), side \in Sides}

ExpandContexts ==
    { [user |-> "alice", name |-> ""],
      [user |-> "", name |-> "Al"],
      [user |-> "alice", name |-> "Al"],
      (DigestKey :> "stale") }

DurStrings ==
    {"", "0", "15m", "1h", "1s", "2s", "1500ms", "500ms", "1.5s", "-1s", "-1500ms",
     "1h30m", "abc", "15", "1x", ".s", "1us", "1µs", "1.2345ms", "1.1234567h",
     "3000000000ns", "600000h", "2562047h", "2562047h60m", "2562048h",
     "-9223372036854775808ns", "9223372036854775808ns"}

DurContexts ==
    { [d |-> x, k |-> y, u |-> "h", user |-> "alice", name |-> ""] :
          x \in DurStrings, y \in {"", "key"} }

\* concurrent requests on one handler
ConcContexts ==
    << [d |-> "1s", k |-> "key", user |-> "alice", name |-> ""],
       [d |-> "1500ms", k |-> "key", user |-> "alice", name |-> ""],
       [d |-> "3s", k |-> "key", user |-> "alice", name |-> ""] @@ (DigestKey :> "stale") >>

\* the requests are interchangeable: the contexts are handed out in the
\* order of ConcContexts
Init ==
    /\ Configured(TRUE, ReadmeTemplate, "{d}", "{k}")
    /\ sL = TRUE
    /\ \E ix \in [1..NumReq -> 1..Len(ConcContexts)] :
          /\ \A r \in 1..(NumReq - 1) : ix[r] <= ix[r + 1]
          /\ repl = [r \in 1..NumReq |-> ConcContexts[ix[r]]]
    /\ req = [r \in 1..NumReq |-> NewRequest(repl[r], "replacer")]

Spec == Init /\ [][ServeHTTP]_vars

\* the Caddyfile inputs: blocks of at most MaxEntries entries nested to
\* depth d, with at most one entry per block that is not the plain "a x"
Leaf(k, args) == [key |-> k, args |-> args, hasBlock |-> FALSE, block |-> <<>>]

Pad == Leaf("a", <<"x">>)

RECURSIVE Pads(_)
Pads(n) == IF n = 0 THEN <<>> ELSE <<Pad>> \o Pads(n - 1)

SpecialLeaves ==
    {Leaf("a", <<"y">>), Leaf("b", <<"{user}">>), Leaf("", <<"x">>),
     Leaf("a", <<"">>), Leaf("a", <<>>), Leaf("a", <<"x", "y">>),
     Leaf("}", <<"x">>), Leaf("}", <<"{", "b", "y">>),
     Leaf("a", <<"x\ny">>), Leaf("a", <<"x\ny", "}">>)}

RECURSIVE Blocks(_)
Blocks(d) ==
    LET special == SpecialLeaves \cup
                   (IF d = 0 THEN {}
                    ELSE {[key |-> "n", args |-> <<>>, hasBlock |-> TRUE, block |-> b] :
                             b \in Blocks(d - 1)}
                         \cup {[key |-> "n", args |-> <<"x">>, hasBlock |-> TRUE, block |-> b] :
                                  b \in {<<>>, <<Pad>>}})
    IN  {Pads(n) : n \in 0..MaxEntries}
        \cup {Pads(ij[1]) \o <<e>> \o Pads(ij[2]) :
                 e \in special,
                 ij \in {p \in (0..MaxEntries) \X (0..MaxEntries) :
                            p[1] + p[2] < MaxEntries}}

CaddyfileInputs ==
    {[args |-> <<"15m", "s3">>, hasBlock |-> TRUE, entries |-> b] : b \in Blocks(MaxDepth)}
    \cup {[args |-> as, hasBlock |-> FALSE, entries |-> <<>>] :
             as \in {<<"15m", "s3">>, <<"15m">>, <<"15m", "s3", "x">>, <<"", "s3">>,
                     <<"15m", "">>}}
    \cup {[args |-> <<"15m", "s\n3">>, hasBlock |-> TRUE, entries |-> <<Pad>>]}
    \cup {[args |-> <<"1h", "s3">>, hasBlock |-> TRUE, entries |-> ReadmeEntries],
          [args |-> <<"1h", "s3">>, hasBlock |-> TRUE,
           entries |-> ReadmeEntries \o ReadmeEntries]}

\* the templates of the handlers that the Caddyfile inputs are loaded as
CaddyfileTemplates ==
    LET loaded == {UnmarshalCaddyfile(NewDispenser(
                       DirectiveTokens(in.args, in.hasBlock, in.entries))) :
                      in \in CaddyfileInputs}
    IN  {DecodeClaims(u.cs).cs : u \in {x \in loaded : ~x.err /\ x.set}}

\* one request at a time: every template with a fixed duration and secret,
\* or a few templates with every duration and secret
InitSeq ==
    /\ \/ \E t \in Templates(MaxDepth) \cup CaddyfileTemplates, c \in ExpandContexts :
            /\ Configured(TRUE, t, "15m", "s3")
            /\ sL = TRUE
            /\ repl = [r \in {1} |-> c]
            /\ req = [r \in {1} |-> NewRequest(c, "replacer")]
       \/ \E has \in BOOLEAN,
             t \in {ScenarioTemplate, StampedTemplate, ChanTemplate},
             dur \in {"{d}", "15m", "1{u}"}, secret \in {"{k}", "s3"},
             c \in DurContexts, ctxRepl \in {"replacer", "nil", "none"},
             l \in BOOLEAN :
            /\ Configured(has, t, dur, secret)
            /\ sL = l
            /\ repl = [r \in {1} |-> c]
            /\ req = [r \in {1} |-> NewRequest(c, ctxRepl)]

SpecSeq == InitSeq /\ [][ServeHTTP]_vars

InitParse ==
    /\ heap = <<>>
    /\ sDur = ""
    /\ sSecret = ""
    /\ sL = FALSE
    /\ sClaims = 0
    /\ claims0 = EmptyMap
    /\ repl = <<>>
    /\ req = <<>>
    /\ writes = {}
    /\ \E in \in CaddyfileInputs : cfg = [phase |-> "caddyfile", input |-> in]

NextParse == LoadCaddyfile \/ LoadModule \/ Provision \/ ValidateConfig

SpecParse == InitParse /\ [][NextParse]_vars

-----------------------------------------------------------------------------
(* Vocabulary of the properties.                                           *)

Did(q, step) == \E i \in 1..Len(q.trace) : q.trace[i] = step

Count(q, step) == Cardinality({i \in 1..Len(q.trace) : q.trace[i] = step})

\* the part of an output under key k, empty when the key is absent
Under(o, k) == IF k \in DOMAIN o /\ IsMap(o[k]) THEN o[k].map ELSE EmptyMap

\* the expansion the specification describes: string leaves expanded and
\* pruned when empty, scalars kept, nested nodes expanded and pruned when
\* empty
RECURSIVE Expansion(_, _)
Expansion(t, ctx) ==
    LET kept == {k \in DOMAIN t :
                   IF IsStr(t[k]) THEN ReplaceAll(ctx, t[k].str) # ""
                   ELSE IF IsMap(t[k]) THEN Expansion(t[k].map, ctx) # EmptyMap
                   ELSE TRUE}
    IN  [k \in kept |->
            IF IsStr(t[k]) THEN Str(ReplaceAll(ctx, t[k].str))
            ELSE IF IsMap(t[k]) THEN Nested(Expansion(t[k].map, ctx), TyMapClaims)
            ELSE t[k]]

\* a deep value with the dynamic types of its maps forgotten
RECURSIVE Untyped(_)
Untyped(m) ==
    [k \in DOMAIN m |->
        IF IsMap(m[k]) THEN Nested(Untyped(m[k].map), TyMapClaims) ELSE m[k]]

\* the nesting depth of a deep value
RECURSIVE Depth(_)
Depth(m) ==
    IF \A k \in DOMAIN m : ~IsMap(m[k]) THEN 0
    ELSE 1 + CHOOSE n \in 0..8 :
                 /\ \E k \in DOMAIN m : IsMap(m[k]) /\ Depth(m[k].map) = n
                 /\ \A k \in DOMAIN m : IsMap(m[k]) => Depth(m[k].map) <= n

-----------------------------------------------------------------------------
\* in output o of template t, every string leaf is as C1 says
RECURSIVE StringLeavesExpanded(_, _, _)
StringLeavesExpanded(t, o, ctx) ==
    \A k \in DOMAIN t :
        /\ IsStr(t[k]) =>
              /\ (k \in DOMAIN o) <=> (ReplaceAll(ctx, t[k].str) # "")
              /\ (k \in DOMAIN o) => o[k] = Str(ReplaceAll(ctx, t[k].str))
        /\ IsMap(t[k]) => StringLeavesExpanded(t[k].map, Under(o, k), ctx)

\* C1: for every string leaf of the template, at any depth, the output
\* mapping of fillClaims at that level holds the leaf's key exactly when
\* the leaf's template string expands to a non-empty string, and then the
\* key maps to the expanded string.
C1_StringLeaves ==
    \A r \in DOMAIN req :
        Did(req[r], "expand") =>
            StringLeavesExpanded(claims0, req[r].expanded, req[r].ctx0)

\* the README's template, loaded from its Caddyfile: under `user' the leaf
\* `id' is expanded and the leaf `name' pruned
C1_Witness ==
    \E r \in DOMAIN req :
        /\ Did(req[r], "expand")
        /\ claims0 = ReadmeTemplate
        /\ claims0["user"] = Nested([id |-> Str("{user}"), name |-> Str("{name}")], TyMapAny)
        /\ req[r].ctx0 = [user |-> "alice", name |-> ""]
        /\ req[r].expanded = [user  |-> Nested([id |-> Str("alice")], TyMapClaims),
                              roles |-> Str("admin editor")]

\* in output o of template t, every nested node is as C2 says (the nodes
\* below the first level through Expansion)
NestedNodesExpanded(t, o, ctx) ==
    \A k \in DOMAIN t :
        IsMap(t[k]) =>
            /\ (k \in DOMAIN o) <=> (Expansion(t[k].map, ctx) # EmptyMap)
            /\ (k \in DOMAIN o) =>
                  /\ IsMap(o[k])
                  /\ Untyped(o[k].map) = Expansion(t[k].map, ctx)

\* C2: for every template, those parseClaimsCaddyfile produces included, a
\* nested node's key is omitted from its parent's output exactly when the
\* expansion of its children is empty, at any depth, and otherwise maps to
\* the recursively expanded nested mapping.
C2_NestedNodes ==
    \A r \in DOMAIN req :
        Did(req[r], "expand") =>
            NestedNodesExpanded(claims0, req[r].expanded, req[r].ctx0)

\* the handler of `n { a x / n { b {user} } }': the inner node is omitted,
\* its only child pruned, and the outer one kept with what is left
C2_Witness ==
    \E r \in DOMAIN req :
        /\ Did(req[r], "expand")
        /\ claims0 \in CaddyfileTemplates
        /\ claims0 = ("n" :> Nested([a |-> Str("x"),
                                     n |-> Nested([b |-> Str("{user}")], TyMapAny)],
                                    TyMapAny))
        /\ ReplGet(req[r].ctx0, "user") = ""
        /\ req[r].expanded = ("n" :> Nested([a |-> Str("x")], TyMapClaims))

\* C3: when the resolved duration or secret is empty, the duration does not
\* parse or signing fails, the execution ends with an error, nothing is set
\* in the replacer and the next handler is not invoked.
C3_FailureAborts ==
    \A r \in DOMAIN req :
        LET q == req[r]
        IN  ( /\ Did(q, "resolve")
              /\ \/ q.durStr = ""
                 \/ q.secret = ""
                 \/ ~ParseDuration(q.durStr).ok
                 \/ q.signErr )
            => /\ ~Did(q, "set")
               /\ ~Did(q, "next")
               /\ repl[r] = q.ctx0
               /\ q.tosStr = ""
               /\ q.pc \in {"resolved", "checked", "done"}
               /\ q.pc = "done" => q.ret = "error"

C3_Witness ==
    \E r \in DOMAIN req :
        /\ req[r].pc = "done"
        /\ req[r].signErr
        /\ req[r].ret = "error"

\* C4 as stated: in the signed claims exp - iat is the resolved duration
\* in seconds, for every accepted duration string.
C4_ExactSeconds ==
    \A r \in DOMAIN req :
        Did(req[r], "sign") =>
            LET c == req[r].signed
                d == DurSplit(req[r].dur)
            IN  /\ d.nsec = 0
                /\ c["exp"].int = I64Add(c["iat"].int, d.sec)

\* C4 amended: iat and exp are integers that replace whatever the template
\* produced; exp - iat is the duration in seconds when the duration is a
\* whole number of seconds, and otherwise the duration rounded down to
\* whole seconds or one more.
C4_WholeSeconds ==
    \A r \in DOMAIN req :
        Did(req[r], "sign") =>
            LET c == req[r].signed
                d == DurSplit(req[r].dur)
                floor == IF d.nsec < 0 THEN I64Add(d.sec, Int64(-1)) ELSE d.sec
            IN  /\ DOMAIN c = DOMAIN req[r].expanded \cup {"iat", "exp"}
                /\ \A k \in DOMAIN req[r].expanded \ {"iat", "exp"} :
                       c[k] = req[r].expanded[k]
                /\ c["iat"] = [int |-> req[r].now.sec]
                /\ DOMAIN c["exp"] = {"int"}
                /\ d.nsec = 0 => c["exp"].int = I64Add(c["iat"].int, d.sec)
                /\ d.nsec # 0 =>
                      c["exp"].int \in {I64Add(c["iat"].int, floor),
                                        I64Add(c["iat"].int, I64Add(floor, Int64(1)))}

C4_Witness ==
    \E r \in DOMAIN req :
        /\ Did(req[r], "sign")
        /\ req[r].durStr = "1500ms"
        /\ req[r].signed["exp"].int = I64Add(req[r].signed["iat"].int, Int64(2))
        /\ "iat" \in DOMAIN req[r].expanded

\* in output o of template t, every scalar leaf is under its key, unchanged
RECURSIVE ScalarLeavesKept(_, _)
ScalarLeavesKept(t, o) ==
    \A k \in DOMAIN t :
        /\ IsScalar(t[k]) => k \in DOMAIN o /\ o[k] = t[k]
        /\ IsMap(t[k]) => ScalarLeavesKept(t[k].map, Under(o, k))

\* C5: every leaf of the template that is neither a string nor a nested
\* mapping is in the output of fillClaims under its own key with its value
\* unchanged, at any depth and whatever the replacer resolves.
C5_ScalarLeaves ==
    \A r \in DOMAIN req :
        Did(req[r], "expand") => ScalarLeavesKept(claims0, req[r].expanded)

C5_Witness ==
    \E r \in DOMAIN req :
        /\ Did(req[r], "expand")
        /\ Depth(claims0) = 2
        /\ "n" \in DOMAIN claims0 /\ claims0["n"].ty = TyMapAny
        /\ "n" \in DOMAIN claims0["n"].map
        /\ claims0["n"].map["n"].map = [a |-> Num(7), b |-> Str("{name}")]
        /\ req[r].ctx0 = (DigestKey :> "stale")
        /\ req[r].expanded["n"].map["n"].map = [a |-> Num(7)]

\* C6: an execution that reaches the next handler has resolved, checked,
\* parsed, expanded, signed, set and called next in this order, each once,
\* and the next handler reads the token this execution signed.
SuccessOrder == <<"resolve", "check", "parse", "expand", "sign", "set", "next">>

C6_OrderAndToken ==
    \A r \in DOMAIN req :
        LET q == req[r]
        IN  /\ Len(q.trace) <= Len(SuccessOrder)
            /\ \A i \in 1..Len(q.trace) :
                   \/ q.trace[i] = SuccessOrder[i]
                   \/ i = Len(q.trace) /\ q.ret = "error"
            /\ Did(q, "next") =>
                  /\ q.trace = SuccessOrder
                  /\ q.ret = "next"
                  /\ q.seen = q.tosStr
                  /\ q.tosStr = SignedString(q.signed, q.secret).tok
                  /\ q.signed["iat"] = [int |-> q.now.sec]
                  /\ q.secret = ReplaceAll(q.ctx0, sSecret)
                  /\ repl[r] = ReplSet(q.ctx0, DigestKey, q.tosStr)

C6_Witness ==
    \E r1, r2 \in DOMAIN req :
        /\ Did(req[r1], "next") /\ Did(req[r2], "next")
        /\ req[r1].seen # req[r2].seen
        /\ DigestKey \in DOMAIN req[r1].ctx0

\* C7: the template s.Claims is never written, and the claims object one
\* request signs is never written by another request.
C7_TemplateImmutable ==
    /\ Load(heap, sClaims) = claims0
    /\ \A w \in writes : w.addr \notin Reach(heap, sClaims)
    /\ \A r \in DOMAIN req :
           /\ req[r].cs # sClaims \/ req[r].cs = 0
           /\ \A w \in writes : w.addr \in Reach(heap, req[r].cs) => w.by = r

\* two executions under way at once, each with a claims object of its own
\* built from the nested template and stamped
C7_Witness ==
    \E r1, r2 \in DOMAIN req :
        /\ r1 # r2
        /\ req[r1].pc = "exp" /\ req[r2].pc = "signed"
        /\ sClaims # 0
        /\ Cardinality(Reach(heap, sClaims)) = 2
        /\ Cardinality(Reach(heap, req[r1].cs)) = 2
        /\ Cardinality(Reach(heap, req[r2].cs)) = 2
        /\ \E w1, w2 \in writes :
               /\ w1.by = r1 /\ w1.addr \in Reach(heap, req[r1].cs)
               /\ w2.by = r2 /\ w2.addr \in Reach(heap, req[r2].cs)

\* two issuances alike but for the duration
SameButDuration(p, q) ==
    /\ Did(p, "sign") /\ Did(q, "sign")
    /\ p.expanded = q.expanded
    /\ p.secret = q.secret
    /\ p.now = q.now
    /\ p.dur # q.dur

\* C8 as stated: two issuances with identical expanded claims, secret and
\* current time but different resolved durations give different tokens.
C8_DifferentDurations ==
    \A r1, r2 \in DOMAIN req :
        SameButDuration(req[r1], req[r2]) => req[r1].tosStr # req[r2].tosStr

\* the durations differ by a second or more
SecondApart(a, b) ==
    Cmp(I64Add(a, I64Neg(b)).mag, FromInt(Second)) >= 0

\* C8 amended: two issuances with identical expanded claims, secret and
\* current time but resolved durations a second or more apart give
\* different tokens (exp is in whole seconds, so closer durations may give
\* the same token).
C8_SecondApart ==
    \A r1, r2 \in DOMAIN req :
        SameButDuration(req[r1], req[r2]) /\ SecondApart(req[r1].dur, req[r2].dur)
            => req[r1].tosStr # req[r2].tosStr

C8_Witness ==
    \E r1, r2 \in DOMAIN req :
        /\ SameButDuration(req[r1], req[r2])
        /\ req[r1].durStr = "1500ms" /\ req[r2].durStr = "3s"
        /\ req[r1].now.nsec = 600000000

\* the entries' defects as C9 lists them, at any depth
RECURSIVE ListedDefect(_)
ListedDefect(entries) ==
    \E i \in 1..Len(entries) :
        LET e == entries[i]
        IN  \/ e.key = ""
            \/ e.args = <<>> /\ (~e.hasBlock \/ e.block = <<>>)
            \/ Len(e.args) > 1
            \/ e.hasBlock /\ ListedDefect(e.block)

\* and with the two the code rejects besides: an empty value, and a value
\* followed by a block
RECURSIVE AnyDefect(_)
AnyDefect(entries) ==
    \E i \in 1..Len(entries) :
        LET e == entries[i]
        IN  \/ e.key = ""
            \/ e.args = <<>> /\ (~e.hasBlock \/ e.block = <<>>)
            \/ Len(e.args) > 1
            \/ Len(e.args) = 1 /\ (e.args[1] = "" \/ e.hasBlock)
            \/ e.hasBlock /\ AnyDefect(e.block)

\* the template of entries without defect: a value is a string leaf, a
\* block a nested mapping, the last entry of a key is the one kept
RECURSIVE TemplateOf(_)
TemplateOf(entries) ==
    LET keys == {entries[i].key : i \in 1..Len(entries)}
        last(k) == CHOOSE i \in 1..Len(entries) :
                       /\ entries[i].key = k
                       /\ \A j \in (i + 1)..Len(entries) : entries[j].key # k
    IN  [k \in keys |->
            IF entries[last(k)].hasBlock
            THEN Nested(TemplateOf(entries[last(k)].block), TyMapClaims)
            ELSE Str(entries[last(k)].args[1])]

\* the entries in which no key and no value is a brace
RECURSIVE NoBraceTokens(_)
NoBraceTokens(entries) ==
    \A i \in 1..Len(entries) :
        LET e == entries[i]
        IN  /\ e.key \notin {"{", "}"}
            /\ \A j \in 1..Len(e.args) : e.args[j] \notin {"{", "}"}
            /\ NoBraceTokens(e.block)

\* the configurations on which parseClaimsCaddyfile has run and returned:
\* s is the struct handed to it
ClaimsParsed == cfg.phase \in {"rejected", "parsed"} /\ Len(cfg.input.args) = 2

\* C9 as stated: an error and no template exactly when some entry has a
\* listed defect; otherwise every entry is a string leaf or a non-empty
\* nested mapping of the template.
C9_ListedDefects ==
    ClaimsParsed =>
        /\ (cfg.phase = "rejected") <=> ListedDefect(cfg.input.entries)
        /\ cfg.phase = "rejected" => sClaims = 0 /\ heap = <<>>
        /\ cfg.phase = "parsed" => Load(heap, sClaims) = TemplateOf(cfg.input.entries)

\* C9 amended: on a Caddyfile in which no key and no value is a brace, an
\* error and no template exactly when some entry, at any depth, has an
\* empty key, no value and no (non-empty) nested block, more than one
\* value, an empty-string value, or a value followed by a nested block;
\* otherwise every entry is a string leaf or a non-empty nested mapping of
\* the template, the last entry of a key being the one kept.
C9_AllDefects ==
    ClaimsParsed /\ NoBraceTokens(cfg.input.entries) =>
        /\ (cfg.phase = "rejected") <=> AnyDefect(cfg.input.entries)
        /\ cfg.phase = "rejected" => sClaims = 0 /\ heap = <<>>
        /\ cfg.phase = "parsed" =>
              /\ Load(heap, sClaims) = TemplateOf(cfg.input.entries)
              /\ \A a \in Reach(heap, sClaims) : heap[a] # EmptyMap

C9_Witness ==
    /\ cfg.phase = "parsed"
    /\ NoBraceTokens(cfg.input.entries)
    /\ Depth(Load(heap, sClaims)) = 2
    /\ Cardinality(DOMAIN heap[sClaims]) = 2

\* C10: when the template is absent or empty, or every claim in it prunes
\* away (its expansion, as the specification describes it, is empty), the
\* claims object after fillClaims is an empty, non-nil map, the execution
\* goes on to the next handler, and the signed claims are exactly iat and
\* exp.
C10_EmptyClaims ==
    \A r \in DOMAIN req :
        LET q == req[r]
        IN  Did(q, "expand") /\ Expansion(claims0, q.ctx0) = EmptyMap =>
               /\ q.cs # 0
               /\ q.expanded = EmptyMap
               /\ q.pc \in {"expanded", "iat", "exp", "signed", "published", "done"}
               /\ ~q.signErr
               /\ q.pc = "done" => q.ret = "next"
               /\ Did(q, "sign") => DOMAIN q.signed = {"iat", "exp"}
               /\ Did(q, "sign") => q.tosStr # ""

\* a template nested two deep whose only leaf prunes: nothing is left at
\* the root, and the token is signed over iat and exp
C10_Witness ==
    \E r \in DOMAIN req :
        /\ claims0 = ("n" :> Nested(("n" :> Nested(("a" :> Str("{name}")), TyMapAny)),
                                    TyMapAny))
        /\ req[r].pc = "done" /\ req[r].ret = "next"
        /\ req[r].cs # 0
        /\ req[r].expanded = EmptyMap
        /\ DOMAIN req[r].signed = {"iat", "exp"}

=============================================================================
